---- MODULE Spec2Model ----
(***************************************************************************)
(* Stockfish time management (src/src/timeman.cpp): the TimeManagement     *)
(* object (startTime, optimumTime, maximumTime, availableNodes,            *)
(* useNodesTime), the caller's Search::LimitsType, the tunable horizon     *)
(* buckets mtg_1..mtg_15 and the operations init, clear,                    *)
(* advance_nodes_time and elapsed.                                          *)
(*                                                                         *)
(* Arithmetic.  TimePoint and int values are integers.  A C++ double is    *)
(* carried as a decimal fixed-point integer: scale factors in units of     *)
(* 10^-6 ("micro"), optConstant in units of 10^-9 ("nano"), the two         *)
(* arguments of the final std::min in units of 10^-3 ("milli").            *)
(* std::log10 and std::pow are tabulated to 10^-6 on the model's input     *)
(* range.  The comparisons and truncations whose outcome decides a branch  *)
(* or an integer result (mtg / time > 0.05, time * 0.05, 0.825 * time -    *)
(* moveOverhead) are integer-exact renderings of the double expressions.   *)
(***************************************************************************)
EXTENDS Integers, Sequences, FiniteSets, TLC

VARIABLES
    startTime,       \* TimeManagement::startTime
    optimumTime,     \* TimeManagement::optimumTime
    maximumTime,     \* TimeManagement::maximumTime
    availableNodes,  \* TimeManagement::availableNodes
    useNodesTime,    \* TimeManagement::useNodesTime
    limits,          \* the caller's Search::LimitsType passed to init by reference
    mtgTune,         \* the tunable globals mtg_1 .. mtg_15, by bucket number
    assertsEnabled,  \* the build: TRUE when NDEBUG is not defined
    aborted,         \* the process was ended by a failed assert
    lastOp,          \* history: the operation of the last step
    args,            \* history: the arguments of the last call
    internals,       \* history: the locals of the last init call
    ret,             \* history: the value the last call returned (0 if void)
    script           \* SpecFormula only: the requests still to be made

vars == <<startTime, optimumTime, maximumTime, availableNodes, useNodesTime,
          limits, mtgTune, assertsEnabled, aborted, lastOp, args, internals,
          ret, script>>

-----------------------------------------------------------------------------
\* Program constants

\* int mtg_1 = 50; ... int mtg_15 = 50;
DefaultMtg == 50

\* TUNE(SetRange(0, 100), mtg_1, ..., mtg_15)
TuneRangeMin == 0

TuneRangeMax == 100

\* the number of tunable buckets, mtg_1 .. mtg_15
NumBuckets == 15

\* int estimatedMoveHorizon = 50;
DefaultMoveHorizon == 50

\* std::min(limits.movestogo, 50)
MaxMoveHorizon == 50

\* limits.time[us] < 1000
LowTimeLimit == 1000

\* the "- 10" of maximumTime
SafetyMargin == 10

Colors == {"WHITE", "BLACK"}

-----------------------------------------------------------------------------
\* Fixed-point arithmetic for the double expressions

Micro == 10^6

Nano == 10^9

\* Stands for +infinity, the IEEE-754 value of a positive double divided by 0.0;
\* also the value at which a fixed-point quotient saturates (every finite value
\* that survives a std::min in the model is below it).
Infinity == 10^9

Min(a, b) == IF a <= b THEN a ELSE b

Max(a, b) == IF a >= b THEN a ELSE b

\* <<q, r>> with a * b = q * c + r and 0 <= r < c, by binary long multiplication
\* (no intermediate exceeds 2 * c + a); q saturates at Infinity.
RECURSIVE MulQR(_, _, _)
MulQR(a, b, c) ==
    IF b = 0 THEN <<0, 0>>
    ELSE LET h == MulQR(a, b \div 2, c)
             s == 2 * h[2] + (b % 2) * a
         IN IF h[1] >= Infinity THEN <<Infinity, 0>>
            ELSE <<2 * h[1] + s \div c, s % c>>

\* The largest int of the model checker
MaxInt == (2^30 - 1) * 2 + 1

\* a * b / c for a, b >= 0 and c > 0, rounded toward zero, saturated at Infinity
MulDiv(a, b, c) ==
    IF b = 0 \/ a <= MaxInt \div b
    THEN Min((a * b) \div c, Infinity)
    ELSE Min(MulQR(a, b, c)[1], Infinity)

\* a * s / c for a >= 0, c > 0 and any sign of s, rounded toward zero
SMulDiv(a, s, c) == IF s >= 0 THEN MulDiv(a, s, c) ELSE 0 - MulDiv(a, 0 - s, c)

\* TimePoint(x) of a double x given in milli: truncation toward zero
TruncMilli(x) == IF x >= 0 THEN x \div 1000 ELSE 0 - ((0 - x) \div 1000)

\* std::log10(t / 1000.0) in micro, for t in 1 .. Len(Log10Table)
Log10Table ==
  <<
     -3000000, -2698970, -2522879, -2397940, -2301030, -2221849, -2154902, -2096910, -2045757, -2000000,
     -1958607, -1920819, -1886057, -1853872, -1823909, -1795880, -1769551, -1744727, -1721246, -1698970,
     -1677781, -1657577, -1638272, -1619789, -1602060, -1585027, -1568636, -1552842, -1537602, -1522879,
     -1508638, -1494850, -1481486, -1468521, -1455932, -1443697, -1431798, -1420216, -1408935, -1397940,
     -1387216, -1376751, -1366532, -1356547, -1346787, -1337242, -1327902, -1318759, -1309804, -1301030,
     -1292430, -1283997, -1275724, -1267606, -1259637, -1251812, -1244125, -1236572, -1229148, -1221849,
     -1214670, -1207608, -1200659, -1193820, -1187087, -1180456, -1173925, -1167491, -1161151, -1154902,
     -1148742, -1142668, -1136677, -1130768, -1124939, -1119186, -1113509, -1107905, -1102373, -1096910,
     -1091515, -1086186, -1080922, -1075721, -1070581, -1065502, -1060481, -1055517, -1050610, -1045757,
     -1040959, -1036212, -1031517, -1026872, -1022276, -1017729, -1013228, -1008774, -1004365, -1000000,
     -995679, -991400, -987163, -982967, -978811, -974694, -970616, -966576, -962574, -958607,
     -954677, -950782, -946922, -943095, -939302, -935542, -931814, -928118, -924453, -920819,
     -917215, -913640, -910095, -906578, -903090, -899629, -896196, -892790, -889410, -886057,
     -882729, -879426, -876148, -872895, -869666, -866461, -863279, -860121, -856985, -853872,
     -850781, -847712, -844664, -841638, -838632, -835647, -832683, -829738, -826814, -823909,
     -821023, -818156, -815309, -812479, -809668, -806875, -804100, -801343, -798603, -795880,
     -793174, -790485, -787812, -785156, -782516, -779892, -777284, -774691, -772113, -769551,
     -767004, -764472, -761954, -759451, -756962, -754487, -752027, -749580, -747147, -744727,
     -742321, -739929, -737549, -735182, -732828, -730487, -728158, -725842, -723538, -721246,
     -718967, -716699, -714443, -712198, -709965, -707744, -705534, -703335, -701147, -698970,
     -696804, -694649, -692504, -690370, -688246, -686133, -684030, -681937, -679854, -677781,
     -675718, -673664, -671620, -669586, -667562, -665546, -663540, -661544, -659556, -657577,
     -655608, -653647, -651695, -649752, -647817, -645892, -643974, -642065, -640165, -638272,
     -636388, -634512, -632644, -630784, -628932, -627088, -625252, -623423, -621602, -619789,
     -617983, -616185, -614394, -612610, -610834, -609065, -607303, -605548, -603801, -602060,
     -600326, -598599, -596879, -595166, -593460, -591760, -590067, -588380, -586700, -585027,
     -583359, -581699, -580044, -578396, -576754, -575118, -573489, -571865, -570248, -568636,
     -567031, -565431, -563837, -562249, -560667, -559091, -557520, -555955, -554396, -552842,
     -551294, -549751, -548214, -546682, -545155, -543634, -542118, -540608, -539102, -537602,
     -536107, -534617, -533132, -531653, -530178, -528708, -527244, -525784, -524329, -522879,
     -521434, -519993, -518557, -517126, -515700, -514279, -512862, -511449, -510042, -508638,
     -507240, -505845, -504456, -503070, -501689, -500313, -498941, -497573, -496209, -494850,
     -493495, -492144, -490797, -489455, -488117, -486782, -485452, -484126, -482804, -481486,
     -480172, -478862, -477556, -476254, -474955, -473661, -472370, -471083, -469800, -468521,
     -467246, -465974, -464706, -463442, -462181, -460924, -459671, -458421, -457175, -455932,
     -454693, -453457, -452225, -450997, -449772, -448550, -447332, -446117, -444906, -443697,
     -442493, -441291, -440093, -438899, -437707, -436519, -435334, -434152, -432974, -431798,
     -430626, -429457, -428291, -427128, -425969, -424812, -423659, -422508, -421361, -420216,
     -419075, -417937, -416801, -415669, -414539, -413413, -412289, -411168, -410050, -408935,
     -407823, -406714, -405607, -404504, -403403, -402305, -401209, -400117, -399027, -397940,
     -396856, -395774, -394695, -393619, -392545, -391474, -390406, -389340, -388277, -387216,
     -386158, -385103, -384050, -383000, -381952, -380907, -379864, -378824, -377786, -376751,
     -375718, -374688, -373660, -372634, -371611, -370590, -369572, -368556, -367543, -366532,
     -365523, -364516, -363512, -362510, -361511, -360514, -359519, -358526, -357535, -356547,
     -355561, -354578, -353596, -352617, -351640, -350665, -349692, -348722, -347754, -346787,
     -345823, -344862, -343902, -342944, -341989, -341035, -340084, -339135, -338187, -337242,
     -336299, -335358, -334419, -333482, -332547, -331614, -330683, -329754, -328827, -327902,
     -326979, -326058, -325139, -324222, -323306, -322393, -321482, -320572, -319664, -318759,
     -317855, -316953, -316053, -315155, -314258, -313364, -312471, -311580, -310691, -309804,
     -308919, -308035, -307153, -306273, -305395, -304518, -303644, -302771, -301899, -301030,
     -300162, -299296, -298432, -297569, -296709, -295849, -294992, -294136, -293282, -292430,
     -291579, -290730, -289883, -289037, -288193, -287350, -286509, -285670, -284833, -283997,
     -283162, -282329, -281498, -280669, -279841, -279014, -278189, -277366, -276544, -275724,
     -274905, -274088, -273273, -272459, -271646, -270835, -270026, -269218, -268411, -267606,
     -266803, -266001, -265200, -264401, -263603, -262807, -262013, -261219, -260428, -259637,
     -258848, -258061, -257275, -256490, -255707, -254925, -254145, -253366, -252588, -251812,
     -251037, -250264, -249492, -248721, -247952, -247184, -246417, -245652, -244888, -244125,
     -243364, -242604, -241845, -241088, -240332, -239578, -238824, -238072, -237321, -236572,
     -235824, -235077, -234331, -233587, -232844, -232102, -231362, -230623, -229885, -229148,
     -228413, -227678, -226945, -226214, -225483, -224754, -224026, -223299, -222573, -221849,
     -221126, -220404, -219683, -218963, -218245, -217527, -216811, -216096, -215383, -214670,
     -213959, -213249, -212540, -211832, -211125, -210419, -209715, -209012, -208309, -207608,
     -206908, -206210, -205512, -204815, -204120, -203426, -202732, -202040, -201349, -200659,
     -199971, -199283, -198596, -197911, -197226, -196543, -195861, -195179, -194499, -193820,
     -193142, -192465, -191789, -191114, -190440, -189767, -189096, -188425, -187755, -187087,
     -186419, -185752, -185087, -184422, -183759, -183096, -182435, -181774, -181115, -180456,
     -179799, -179142, -178486, -177832, -177178, -176526, -175874, -175224, -174574, -173925,
     -173277, -172631, -171985, -171340, -170696, -170053, -169411, -168770, -168130, -167491,
     -166853, -166216, -165579, -164944, -164309, -163676, -163043, -162412, -161781, -161151,
     -160522, -159894, -159267, -158641, -158015, -157391, -156767, -156145, -155523, -154902,
     -154282, -153663, -153045, -152427, -151811, -151195, -150581, -149967, -149354, -148742,
     -148130, -147520, -146910, -146302, -145694, -145087, -144481, -143876, -143271, -142668,
     -142065, -141463, -140862, -140261, -139662, -139063, -138466, -137869, -137272, -136677,
     -136083, -135489, -134896, -134304, -133713, -133122, -132533, -131944, -131356, -130768,
     -130182, -129596, -129011, -128427, -127844, -127261, -126679, -126098, -125518, -124939,
     -124360, -123782, -123205, -122629, -122053, -121478, -120904, -120331, -119758, -119186,
     -118615, -118045, -117475, -116907, -116339, -115771, -115205, -114639, -114074, -113509,
     -112946, -112383, -111821, -111259, -110698, -110138, -109579, -109020, -108463, -107905,
     -107349, -106793, -106238, -105684, -105130, -104577, -104025, -103474, -102923, -102373,
     -101824, -101275, -100727, -100179, -99633, -99087, -98542, -97997, -97453, -96910,
     -96367, -95826, -95284, -94744, -94204, -93665, -93126, -92589, -92051, -91515,
     -90979, -90444, -89909, -89376, -88842, -88310, -87778, -87247, -86716, -86186,
     -85657, -85128, -84600, -84073, -83546, -83020, -82494, -81970, -81445, -80922,
     -80399, -79877, -79355, -78834, -78314, -77794, -77275, -76756, -76238, -75721,
     -75204, -74688, -74172, -73658, -73143, -72630, -72117, -71604, -71092, -70581,
     -70070, -69560, -69051, -68542, -68034, -67526, -67019, -66513, -66007, -65502,
     -64997, -64493, -63989, -63486, -62984, -62482, -61981, -61480, -60980, -60481,
     -59982, -59484, -58986, -58489, -57992, -57496, -57000, -56505, -56011, -55517,
     -55024, -54531, -54039, -53548, -53057, -52566, -52076, -51587, -51098, -50610,
     -50122, -49635, -49149, -48662, -48177, -47692, -47208, -46724, -46240, -45757,
     -45275, -44793, -44312, -43832, -43351, -42872, -42393, -41914, -41436, -40959,
     -40482, -40005, -39529, -39054, -38579, -38105, -37631, -37157, -36684, -36212,
     -35740, -35269, -34798, -34328, -33858, -33389, -32920, -32452, -31984, -31517,
     -31050, -30584, -30118, -29653, -29188, -28724, -28260, -27797, -27334, -26872,
     -26410, -25949, -25488, -25028, -24568, -24109, -23650, -23192, -22734, -22276,
     -21819, -21363, -20907, -20452, -19997, -19542, -19088, -18634, -18181, -17729,
     -17277, -16825, -16374, -15923, -15473, -15023, -14574, -14125, -13676, -13228,
     -12781, -12334, -11887, -11441, -10995, -10550, -10105, -9661, -9217, -8774,
     -8331, -7889, -7446, -7005, -6564, -6123, -5683, -5243, -4804, -4365,
     -3926, -3488, -3051, -2614, -2177, -1741, -1305, -869, -435, 0,
     434, 868, 1301, 1734, 2166, 2598, 3029, 3461, 3891, 4321,
     4751, 5181, 5609, 6038, 6466, 6894, 7321, 7748, 8174, 8600,
     9026, 9451, 9876, 10300, 10724, 11147, 11570, 11993, 12415, 12837,
     13259, 13680, 14100, 14521, 14940, 15360, 15779, 16197, 16616, 17033,
     17451, 17868, 18284, 18700, 19116, 19532, 19947, 20361, 20775, 21189,
     21603, 22016, 22428, 22841, 23252, 23664, 24075, 24486, 24896, 25306,
     25715, 26125, 26533, 26942, 27350, 27757, 28164, 28571, 28978, 29384,
     29789, 30195, 30600, 31004, 31408, 31812, 32216, 32619, 33021, 33424,
     33826, 34227, 34628, 35029, 35430, 35830, 36230, 36629, 37028, 37426,
     37825, 38223, 38620, 39017, 39414, 39811, 40207, 40602, 40998, 41393,
     41787, 42182, 42576, 42969, 43362, 43755, 44148, 44540, 44932, 45323,
     45714, 46105, 46495, 46885, 47275, 47664, 48053, 48442, 48830, 49218,
     49606, 49993, 50380, 50766, 51153, 51538, 51924, 52309, 52694, 53078,
     53463, 53846, 54230, 54613, 54996, 55378, 55760, 56142, 56524, 56905,
     57286, 57666, 58046, 58426, 58805, 59185, 59563, 59942, 60320, 60698,
     61075, 61452, 61829, 62206, 62582, 62958, 63333, 63709, 64083, 64458,
     64832, 65206, 65580, 65953, 66326, 66699, 67071, 67443, 67815, 68186,
     68557, 68928, 69298, 69668, 70038, 70407, 70776, 71145, 71514, 71882,
     72250, 72617, 72985, 73352, 73718, 74085, 74451, 74816, 75182, 75547,
     75912, 76276, 76640, 77004, 77368, 77731, 78094, 78457, 78819, 79181,
     79543, 79904, 80266, 80626, 80987, 81347, 81707, 82067, 82426, 82785,
     83144, 83503, 83861, 84219, 84576, 84934, 85291, 85647, 86004, 86360,
     86716, 87071, 87426, 87781, 88136, 88490, 88845, 89198, 89552, 89905,
     90258, 90611, 90963, 91315, 91667, 92018, 92370, 92721, 93071, 93422,
     93772, 94122, 94471, 94820, 95169, 95518, 95866, 96215, 96562, 96910,
     97257, 97604, 97951, 98298, 98644, 98990, 99335, 99681, 100026, 100371,
     100715, 101059, 101403, 101747, 102091, 102434, 102777, 103119, 103462, 103804,
     104146, 104487, 104828, 105169, 105510, 105851, 106191, 106531, 106871, 107210,
     107549, 107888, 108227, 108565, 108903, 109241, 109579, 109916, 110253, 110590,
     110926, 111263, 111599, 111934, 112270, 112605, 112940, 113275, 113609, 113943,
     114277, 114611, 114944, 115278, 115611, 115943, 116276, 116608, 116940, 117271,
     117603, 117934, 118265, 118595, 118926, 119256, 119586, 119915, 120245, 120574,
     120903, 121231, 121560, 121888, 122216, 122544, 122871, 123198, 123525, 123852,
     124178, 124504, 124830, 125156, 125481, 125806, 126131, 126456, 126781, 127105,
     127429, 127753, 128076, 128399, 128722, 129045, 129368, 129690, 130012, 130334,
     130655, 130977, 131298, 131619, 131939, 132260, 132580, 132900, 133219, 133539,
     133858, 134177, 134496, 134814, 135133, 135451, 135769, 136086, 136403, 136721,
     137037, 137354, 137671, 137987, 138303, 138618, 138934, 139249, 139564, 139879,
     140194, 140508, 140822, 141136, 141450, 141763, 142076, 142389, 142702, 143015,
     143327, 143639, 143951, 144263, 144574, 144885, 145196, 145507, 145818, 146128,
     146438, 146748, 147058, 147367, 147676, 147985, 148294, 148603, 148911, 149219,
     149527, 149835, 150142, 150449, 150756, 151063, 151370, 151676, 151982, 152288,
     152594, 152900, 153205, 153510, 153815, 154120, 154424, 154728, 155032, 155336,
     155640, 155943, 156246, 156549, 156852, 157154, 157457, 157759, 158061, 158362,
     158664, 158965, 159266, 159567, 159868, 160168, 160469, 160769, 161068, 161368,
     161667, 161967, 162266, 162564, 162863, 163161, 163460, 163758, 164055, 164353,
     164650, 164947, 165244, 165541, 165838, 166134, 166430, 166726, 167022, 167317,
     167613, 167908, 168203, 168497, 168792, 169086, 169380, 169674, 169968, 170262,
     170555, 170848, 171141, 171434, 171726, 172019, 172311, 172603, 172895, 173186,
     173478, 173769, 174060, 174351, 174641, 174932, 175222, 175512, 175802, 176091,
     176381, 176670, 176959, 177248, 177536, 177825, 178113, 178401, 178689, 178977,
     179264, 179552, 179839, 180126, 180413, 180699, 180986, 181272, 181558, 181844,
     182129, 182415, 182700, 182985, 183270, 183555, 183839, 184123, 184407, 184691,
     184975, 185259, 185542, 185825, 186108, 186391, 186674, 186956, 187239, 187521,
     187803, 188084, 188366, 188647, 188928, 189209, 189490, 189771, 190051, 190332,
     190612, 190892, 191171, 191451, 191730, 192010, 192289, 192567, 192846, 193125,
     193403, 193681, 193959, 194237, 194514, 194792, 195069, 195346, 195623, 195900,
     196176, 196453, 196729, 197005, 197281, 197556, 197832, 198107, 198382, 198657,
     198932, 199206, 199481, 199755, 200029, 200303, 200577, 200850, 201124, 201397,
     201670, 201943, 202216, 202488, 202761, 203033, 203305, 203577, 203848, 204120,
     204391, 204663, 204934, 205204, 205475, 205746, 206016, 206286, 206556, 206826,
     207096, 207365, 207634, 207904, 208173, 208441, 208710, 208979, 209247, 209515,
     209783, 210051, 210319, 210586, 210853, 211121, 211388, 211654, 211921, 212188,
     212454, 212720, 212986, 213252, 213518, 213783, 214049, 214314, 214579, 214844,
     215109, 215373, 215638, 215902, 216166, 216430, 216694, 216957, 217221, 217484,
     217747, 218010, 218273, 218536, 218798, 219060, 219323, 219585, 219846, 220108,
     220370, 220631, 220892, 221153, 221414, 221675, 221936, 222196, 222456, 222716,
     222976, 223236, 223496, 223755, 224015, 224274, 224533, 224792, 225051, 225309,
     225568, 225826, 226084, 226342, 226600, 226858, 227115, 227372, 227630, 227887,
     228144, 228400, 228657, 228913, 229170, 229426, 229682, 229938, 230193, 230449,
     230704, 230960, 231215, 231470, 231724, 231979, 232234, 232488, 232742, 232996,
     233250, 233504, 233757, 234011, 234264, 234517, 234770, 235023, 235276, 235528,
     235781, 236033, 236285, 236537, 236789, 237041, 237292, 237544, 237795, 238046,
     238297, 238548, 238799, 239049, 239299, 239550, 239800, 240050, 240300, 240549,
     240799, 241048, 241297, 241546, 241795, 242044, 242293, 242541, 242790, 243038,
     243286, 243534, 243782, 244030, 244277, 244525, 244772, 245019, 245266, 245513,
     245759, 246006, 246252, 246499, 246745, 246991, 247237, 247482, 247728, 247973,
     248219, 248464, 248709, 248954, 249198, 249443, 249687, 249932, 250176, 250420,
     250664, 250908, 251151, 251395, 251638, 251881, 252125, 252368, 252610, 252853,
     253096, 253338, 253580, 253822, 254064, 254306, 254548, 254790, 255031, 255273,
     255514, 255755, 255996, 256237, 256477, 256718, 256958, 257198, 257439, 257679,
     257918, 258158, 258398, 258637, 258877, 259116, 259355, 259594, 259833, 260071,
     260310, 260548, 260787, 261025, 261263, 261501, 261739, 261976, 262214, 262451,
     262688, 262925, 263162, 263399, 263636, 263873, 264109, 264346, 264582, 264818,
     265054, 265290, 265525, 265761, 265996, 266232, 266467, 266702, 266937, 267172,
     267406, 267641, 267875, 268110, 268344, 268578, 268812, 269046, 269279, 269513,
     269746, 269980, 270213, 270446, 270679, 270912, 271144, 271377, 271609, 271842,
     272074, 272306, 272538, 272770, 273001, 273233, 273464, 273696, 273927, 274158,
     274389, 274620, 274850, 275081, 275311, 275542, 275772, 276002, 276232, 276462,
     276692, 276921, 277151, 277380, 277609, 277838, 278067, 278296, 278525, 278754,
     278982, 279211, 279439, 279667, 279895, 280123, 280351, 280578, 280806, 281033,
     281261, 281488, 281715, 281942, 282169, 282396, 282622, 282849, 283075, 283301,
     283527, 283753, 283979, 284205, 284431, 284656, 284882, 285107, 285332, 285557,
     285782, 286007, 286232, 286456, 286681, 286905, 287130, 287354, 287578, 287802,
     288026, 288249, 288473, 288696, 288920, 289143, 289366, 289589, 289812, 290035,
     290257, 290480, 290702, 290925, 291147, 291369, 291591, 291813, 292034, 292256,
     292478, 292699, 292920, 293141, 293363, 293584, 293804, 294025, 294246, 294466,
     294687, 294907, 295127, 295347, 295567, 295787, 296007, 296226, 296446, 296665,
     296884, 297104, 297323, 297542, 297761, 297979, 298198, 298416, 298635, 298853,
     299071, 299289, 299507, 299725, 299943, 300161, 300378, 300595, 300813, 301030,
     301247, 301464, 301681, 301898, 302114, 302331, 302547, 302764, 302980, 303196,
     303412, 303628, 303844, 304059, 304275, 304491, 304706, 304921, 305136, 305351,
     305566, 305781, 305996, 306211, 306425, 306639, 306854, 307068, 307282, 307496,
     307710, 307924, 308137, 308351, 308564, 308778, 308991, 309204, 309417, 309630,
     309843, 310056, 310268, 310481, 310693, 310906, 311118, 311330, 311542, 311754,
     311966, 312177, 312389, 312600, 312812, 313023, 313234, 313445, 313656, 313867,
     314078, 314289, 314499, 314710, 314920, 315130, 315340, 315551, 315760, 315970,
     316180, 316390, 316599, 316809, 317018, 317227, 317436, 317646, 317854, 318063,
     318272, 318481, 318689, 318898, 319106, 319314, 319522, 319730, 319938, 320146,
     320354, 320562, 320769, 320977, 321184, 321391, 321598, 321805, 322012, 322219,
     322426, 322633, 322839, 323046, 323252, 323458, 323665, 323871, 324077, 324282,
     324488, 324694, 324899, 325105, 325310, 325516, 325721, 325926, 326131, 326336,
     326541, 326745, 326950, 327155, 327359, 327563, 327767, 327972, 328176, 328380,
     328583, 328787, 328991, 329194, 329398, 329601, 329805, 330008, 330211, 330414,
     330617, 330819, 331022, 331225, 331427, 331630, 331832, 332034, 332236, 332438,
     332640, 332842, 333044, 333246, 333447, 333649, 333850, 334051, 334253, 334454,
     334655, 334856, 335057, 335257, 335458, 335658, 335859, 336059, 336260, 336460,
     336660, 336860, 337060, 337260, 337459, 337659, 337858, 338058, 338257, 338456,
     338656, 338855, 339054, 339253, 339451, 339650, 339849, 340047, 340246, 340444,
     340642, 340841, 341039, 341237, 341435, 341632, 341830, 342028, 342225, 342423,
     342620, 342817, 343014, 343212, 343409, 343606, 343802, 343999, 344196, 344392,
     344589, 344785, 344981, 345178, 345374, 345570, 345766, 345962, 346157, 346353,
     346549, 346744, 346939, 347135, 347330, 347525, 347720, 347915, 348110, 348305,
     348500, 348694, 348889, 349083, 349278, 349472, 349666, 349860, 350054, 350248,
     350442, 350636, 350829, 351023, 351216, 351410, 351603, 351796, 351989, 352183,
     352375, 352568, 352761, 352954, 353147, 353339, 353532, 353724, 353916, 354108,
     354301, 354493, 354685, 354876, 355068, 355260, 355452, 355643, 355834, 356026,
     356217, 356408, 356599, 356790, 356981, 357172, 357363, 357554, 357744, 357935,
     358125, 358316, 358506, 358696, 358886, 359076, 359266, 359456, 359646, 359835,
     360025, 360215, 360404, 360593, 360783, 360972, 361161, 361350, 361539, 361728,
     361917, 362105, 362294, 362482, 362671, 362859, 363048, 363236, 363424, 363612,
     363800, 363988, 364176, 364363, 364551, 364739, 364926, 365113, 365301, 365488,
     365675, 365862, 366049, 366236, 366423, 366610, 366796, 366983, 367169, 367356,
     367542, 367729, 367915, 368101, 368287, 368473, 368659, 368845, 369030, 369216,
     369401, 369587, 369772, 369958, 370143, 370328, 370513, 370698, 370883, 371068,
     371253, 371437, 371622, 371806, 371991, 372175, 372360, 372544, 372728, 372912,
     373096, 373280, 373464, 373647, 373831, 374015, 374198, 374382, 374565, 374748,
     374932, 375115, 375298, 375481, 375664, 375846, 376029, 376212, 376394, 376577,
     376759, 376942, 377124, 377306, 377488, 377670, 377852, 378034, 378216, 378398,
     378580, 378761, 378943, 379124, 379306, 379487, 379668, 379849, 380030, 380211,
     380392, 380573, 380754, 380934, 381115, 381296, 381476, 381656, 381837, 382017,
     382197, 382377, 382557, 382737, 382917, 383097, 383277, 383456, 383636, 383815,
     383995, 384174, 384353, 384533, 384712, 384891, 385070, 385249, 385428, 385606,
     385785, 385964, 386142, 386321, 386499, 386677, 386856, 387034, 387212, 387390,
     387568, 387746, 387923, 388101, 388279, 388456, 388634, 388811, 388989, 389166,
     389343, 389520, 389698, 389875, 390051, 390228, 390405, 390582, 390759, 390935,
     391112, 391288, 391464, 391641, 391817, 391993, 392169, 392345, 392521, 392697,
     392873, 393048, 393224, 393400, 393575, 393751, 393926, 394101, 394277, 394452,
     394627, 394802, 394977, 395152, 395326, 395501, 395676, 395850, 396025, 396199,
     396374, 396548, 396722, 396896, 397071, 397245, 397419, 397592, 397766, 397940,
     398114, 398287, 398461, 398634, 398808, 398981, 399154, 399328, 399501, 399674,
     399847, 400020, 400192, 400365, 400538, 400711, 400883, 401056, 401228, 401401,
     401573, 401745, 401917, 402089, 402261, 402433, 402605, 402777, 402949, 403121,
     403292, 403464, 403635, 403807, 403978, 404149, 404320, 404492, 404663, 404834,
     405005, 405176, 405346, 405517, 405688, 405858, 406029, 406199, 406370, 406540,
     406710, 406881, 407051, 407221, 407391, 407561, 407731, 407901, 408070, 408240,
     408410, 408579, 408749, 408918, 409087, 409257, 409426, 409595, 409764, 409933,
     410102, 410271, 410440, 410609, 410777, 410946, 411114, 411283, 411451, 411620,
     411788, 411956, 412124, 412293, 412461, 412629, 412796, 412964, 413132, 413300,
     413467, 413635, 413803, 413970, 414137, 414305, 414472, 414639, 414806, 414973,
     415140, 415307, 415474, 415641, 415808, 415974, 416141, 416308, 416474, 416641,
     416807, 416973, 417139, 417306, 417472, 417638, 417804, 417970, 418135, 418301,
     418467, 418633, 418798, 418964, 419129, 419295, 419460, 419625, 419791, 419956,
     420121, 420286, 420451, 420616, 420781, 420945, 421110, 421275, 421439, 421604,
     421768, 421933, 422097, 422261, 422426, 422590, 422754, 422918, 423082, 423246,
     423410, 423574, 423737, 423901, 424065, 424228, 424392, 424555, 424718, 424882,
     425045, 425208, 425371, 425534, 425697, 425860, 426023, 426186, 426349, 426511,
     426674, 426836, 426999, 427161, 427324, 427486, 427648, 427811, 427973, 428135,
     428297, 428459, 428621, 428783, 428944, 429106, 429268, 429429, 429591, 429752,
     429914, 430075, 430236, 430398, 430559, 430720, 430881, 431042, 431203, 431364,
     431525, 431685, 431846, 432007, 432167, 432328, 432488, 432649, 432809, 432969,
     433130, 433290, 433450, 433610, 433770, 433930, 434090, 434249, 434409, 434569,
     434729, 434888, 435048, 435207, 435367, 435526, 435685, 435844, 436004, 436163,
     436322, 436481, 436640, 436799, 436957, 437116, 437275, 437433, 437592, 437751,
     437909, 438067, 438226, 438384, 438542, 438701, 438859, 439017, 439175, 439333,
     439491, 439648, 439806, 439964, 440122, 440279, 440437, 440594, 440752, 440909,
     441066, 441224, 441381, 441538, 441695, 441852, 442009, 442166, 442323, 442480,
     442637, 442793, 442950, 443106, 443263, 443419, 443576, 443732, 443889, 444045,
     444201, 444357, 444513, 444669, 444825, 444981, 445137, 445293, 445449, 445604,
     445760, 445915, 446071, 446226, 446382, 446537, 446692, 446848, 447003, 447158,
     447313, 447468, 447623, 447778, 447933, 448088, 448242, 448397, 448552, 448706,
     448861, 449015, 449170, 449324, 449478, 449633, 449787, 449941, 450095, 450249,
     450403, 450557, 450711, 450865, 451018, 451172, 451326, 451479, 451633, 451786,
     451940, 452093, 452247, 452400, 452553, 452706, 452859, 453012, 453165, 453318,
     453471, 453624, 453777, 453930, 454082, 454235, 454387, 454540, 454692, 454845,
     454997, 455150, 455302, 455454, 455606, 455758, 455910, 456062, 456214, 456366,
     456518, 456670, 456821, 456973, 457125, 457276, 457428, 457579, 457731, 457882,
     458033, 458184, 458336, 458487, 458638, 458789, 458940, 459091, 459242, 459392,
     459543, 459694, 459845, 459995, 460146, 460296, 460447, 460597, 460748, 460898,
     461048, 461198, 461348, 461499, 461649, 461799, 461948, 462098, 462248, 462398,
     462548, 462697, 462847, 462997, 463146, 463296, 463445, 463594, 463744, 463893,
     464042, 464191, 464340, 464490, 464639, 464788, 464936, 465085, 465234, 465383,
     465532, 465680, 465829, 465977, 466126, 466274, 466423, 466571, 466719, 466868,
     467016, 467164, 467312, 467460, 467608, 467756, 467904, 468052, 468200, 468347,
     468495, 468643, 468790, 468938, 469085, 469233, 469380, 469527, 469675, 469822,
     469969, 470116, 470263, 470410, 470557, 470704, 470851, 470998, 471145, 471292,
     471438, 471585, 471732, 471878, 472025, 472171, 472318, 472464, 472610, 472756,
     472903, 473049, 473195, 473341, 473487, 473633, 473779, 473925, 474071, 474216,
     474362, 474508, 474653, 474799, 474944, 475090, 475235, 475381, 475526, 475671,
     475816, 475962, 476107, 476252, 476397, 476542, 476687, 476832, 476976, 477121,
     477266, 477411, 477555, 477700, 477844, 477989, 478133, 478278, 478422, 478566,
     478711, 478855, 478999, 479143, 479287, 479431, 479575, 479719, 479863, 480007,
     480151, 480294, 480438, 480582, 480725, 480869, 481012, 481156, 481299, 481443,
     481586, 481729, 481872, 482016, 482159, 482302, 482445, 482588, 482731, 482874,
     483016, 483159, 483302, 483445, 483587, 483730, 483872, 484015, 484157, 484300,
     484442, 484585, 484727, 484869, 485011, 485153, 485295, 485437, 485579, 485721,
     485863, 486005, 486147, 486289, 486430, 486572, 486714, 486855, 486997, 487138,
     487280, 487421, 487563, 487704, 487845, 487986, 488127, 488269, 488410, 488551,
     488692, 488833, 488974, 489114, 489255, 489396, 489537, 489677, 489818, 489958,
     490099, 490239, 490380, 490520, 490661, 490801, 490941, 491081, 491222, 491362,
     491502, 491642, 491782, 491922, 492062, 492201, 492341, 492481, 492621, 492760,
     492900, 493040, 493179, 493319, 493458, 493597, 493737, 493876, 494015, 494155,
     494294, 494433, 494572, 494711, 494850, 494989, 495128, 495267, 495406, 495544,
     495683, 495822, 495960, 496099, 496238, 496376, 496515, 496653, 496791, 496930,
     497068, 497206, 497344, 497483, 497621, 497759, 497897, 498035, 498173, 498311,
     498448, 498586, 498724, 498862, 498999, 499137, 499275, 499412, 499550, 499687,
     499824, 499962, 500099, 500236, 500374, 500511, 500648, 500785, 500922, 501059,
     501196, 501333, 501470, 501607, 501744, 501880, 502017, 502154, 502291, 502427,
     502564, 502700, 502837, 502973, 503109, 503246, 503382, 503518, 503655, 503791,
     503927, 504063, 504199, 504335, 504471, 504607, 504743, 504878, 505014, 505150,
     505286, 505421, 505557, 505693, 505828, 505964, 506099, 506234, 506370, 506505,
     506640, 506776, 506911, 507046, 507181, 507316, 507451, 507586, 507721, 507856,
     507991, 508126, 508260, 508395, 508530, 508664, 508799, 508934, 509068, 509203,
     509337, 509471, 509606, 509740, 509874, 510009, 510143, 510277, 510411, 510545,
     510679, 510813, 510947, 511081, 511215, 511349, 511482, 511616, 511750, 511883,
     512017, 512151, 512284, 512418, 512551, 512684, 512818, 512951, 513084, 513218,
     513351, 513484, 513617, 513750, 513883, 514016, 514149, 514282, 514415, 514548,
     514681, 514813, 514946, 515079, 515211, 515344, 515476, 515609, 515741, 515874,
     516006, 516139, 516271, 516403, 516535, 516668, 516800, 516932, 517064, 517196,
     517328, 517460, 517592, 517724, 517855, 517987, 518119, 518251, 518382, 518514,
     518646, 518777, 518909, 519040, 519171, 519303, 519434, 519566, 519697, 519828,
     519959, 520090, 520221, 520353, 520484, 520615, 520745, 520876, 521007, 521138,
     521269, 521400, 521530, 521661, 521792, 521922, 522053, 522183, 522314, 522444,
     522575, 522705, 522835, 522966, 523096, 523226, 523356, 523486, 523616, 523746,
     523876, 524006, 524136, 524266, 524396, 524526, 524656, 524785, 524915, 525045,
     525174, 525304, 525434, 525563, 525693, 525822, 525951, 526081, 526210, 526339,
     526469, 526598, 526727, 526856, 526985, 527114, 527243, 527372, 527501, 527630,
     527759, 527888, 528016, 528145, 528274, 528402, 528531, 528660, 528788, 528917,
     529045, 529174, 529302, 529430, 529559, 529687, 529815, 529943, 530072, 530200,
     530328, 530456, 530584, 530712, 530840, 530968, 531096, 531223, 531351, 531479,
     531607, 531734, 531862, 531990, 532117, 532245, 532372, 532500, 532627, 532754,
     532882, 533009, 533136, 533264, 533391, 533518, 533645, 533772, 533899, 534026,
     534153, 534280, 534407, 534534, 534661, 534787, 534914, 535041, 535167, 535294,
     535421, 535547, 535674, 535800, 535927, 536053, 536180, 536306, 536432, 536558,
     536685, 536811, 536937, 537063, 537189, 537315, 537441, 537567, 537693, 537819,
     537945, 538071, 538197, 538322, 538448, 538574, 538699, 538825, 538951, 539076,
     539202, 539327, 539452, 539578, 539703, 539829, 539954, 540079, 540204, 540329,
     540455, 540580, 540705, 540830, 540955, 541080, 541205, 541330, 541454, 541579,
     541704, 541829, 541953, 542078, 542203, 542327, 542452, 542576, 542701, 542825,
     542950, 543074, 543199, 543323, 543447, 543571, 543696, 543820, 543944, 544068,
     544192, 544316, 544440, 544564, 544688, 544812, 544936, 545060, 545183, 545307,
     545431, 545555, 545678, 545802, 545925, 546049, 546172, 546296, 546419, 546543,
     546666, 546789, 546913, 547036, 547159, 547282, 547405, 547529, 547652, 547775,
     547898, 548021, 548144, 548267, 548389, 548512, 548635, 548758, 548881, 549003,
     549126, 549249, 549371, 549494, 549616, 549739, 549861, 549984, 550106, 550228,
     550351, 550473, 550595, 550717, 550840, 550962, 551084, 551206, 551328, 551450,
     551572, 551694, 551816, 551938, 552060, 552181, 552303, 552425, 552547, 552668,
     552790, 552911, 553033, 553155, 553276, 553398, 553519, 553640, 553762, 553883,
     554004, 554126, 554247, 554368, 554489, 554610, 554731, 554852, 554973, 555094,
     555215, 555336, 555457, 555578, 555699, 555820, 555940, 556061, 556182, 556303,
     556423, 556544, 556664, 556785, 556905, 557026, 557146, 557267, 557387, 557507,
     557627, 557748, 557868, 557988, 558108, 558228, 558349, 558469, 558589, 558709,
     558829, 558948, 559068, 559188, 559308, 559428, 559548, 559667, 559787, 559907,
     560026, 560146, 560265, 560385, 560504, 560624, 560743, 560863, 560982, 561101,
     561221, 561340, 561459, 561578, 561698, 561817, 561936, 562055, 562174, 562293,
     562412, 562531, 562650, 562769, 562887, 563006, 563125, 563244, 563362, 563481,
     563600, 563718, 563837, 563955, 564074, 564192, 564311, 564429, 564548, 564666,
     564784, 564903, 565021, 565139, 565257, 565376, 565494, 565612, 565730, 565848,
     565966, 566084, 566202, 566320, 566437, 566555, 566673, 566791, 566909, 567026,
     567144, 567262, 567379, 567497, 567614, 567732, 567849, 567967, 568084, 568202,
     568319, 568436, 568554, 568671, 568788, 568905, 569023, 569140, 569257, 569374,
     569491, 569608, 569725, 569842, 569959, 570076, 570193, 570309, 570426, 570543,
     570660, 570776, 570893, 571010, 571126, 571243, 571359, 571476, 571592, 571709,
     571825, 571942, 572058, 572174, 572291, 572407, 572523, 572639, 572755, 572872,
     572988, 573104, 573220, 573336, 573452, 573568, 573684, 573800, 573915, 574031,
     574147, 574263, 574379, 574494, 574610, 574726, 574841, 574957, 575072, 575188,
     575303, 575419, 575534, 575650, 575765, 575880, 575996, 576111, 576226, 576341,
     576457, 576572, 576687, 576802, 576917, 577032, 577147, 577262, 577377, 577492,
     577607, 577722, 577836, 577951, 578066, 578181, 578295, 578410, 578525, 578639,
     578754, 578868, 578983, 579097, 579212, 579326, 579441, 579555, 579669, 579784,
     579898, 580012, 580126, 580241, 580355, 580469, 580583, 580697, 580811, 580925,
     581039, 581153, 581267, 581381, 581495, 581608, 581722, 581836, 581950, 582063,
     582177, 582291, 582404, 582518, 582631, 582745, 582858, 582972, 583085, 583199,
     583312, 583426, 583539, 583652, 583765, 583879, 583992, 584105, 584218, 584331,
     584444, 584557, 584670, 584783, 584896, 585009, 585122, 585235, 585348, 585461,
     585574, 585686, 585799, 585912, 586024, 586137, 586250, 586362, 586475, 586587,
     586700, 586812, 586925, 587037, 587149, 587262, 587374, 587486, 587599, 587711,
     587823, 587935, 588047, 588160, 588272, 588384, 588496, 588608, 588720, 588832,
     588944, 589056, 589167, 589279, 589391, 589503, 589615, 589726, 589838, 589950,
     590061, 590173, 590284, 590396, 590507, 590619, 590730, 590842, 590953, 591065,
     591176, 591287, 591399, 591510, 591621, 591732, 591843, 591955, 592066, 592177,
     592288, 592399, 592510, 592621, 592732, 592843, 592954, 593064, 593175, 593286,
     593397, 593508, 593618, 593729, 593840, 593950, 594061, 594171, 594282, 594393,
     594503, 594614, 594724, 594834, 594945, 595055, 595165, 595276, 595386, 595496,
     595606, 595717, 595827, 595937, 596047, 596157, 596267, 596377, 596487, 596597,
     596707, 596817, 596927, 597037, 597146, 597256, 597366, 597476, 597586, 597695,
     597805, 597914, 598024, 598134, 598243, 598353, 598462, 598572, 598681, 598791,
     598900, 599009, 599119, 599228, 599337, 599446, 599556, 599665, 599774, 599883,
     599992, 600101, 600210, 600319, 600428, 600537, 600646, 600755, 600864, 600973,
     601082, 601191, 601299, 601408, 601517, 601625, 601734, 601843, 601951, 602060,
     602169, 602277, 602386, 602494, 602603, 602711, 602819, 602928, 603036, 603144,
     603253, 603361, 603469, 603577, 603686, 603794, 603902, 604010, 604118, 604226,
     604334, 604442, 604550, 604658, 604766, 604874, 604982, 605089, 605197, 605305,
     605413, 605521, 605628, 605736, 605844, 605951, 606059, 606166, 606274, 606381,
     606489, 606596, 606704, 606811, 606919, 607026, 607133, 607241, 607348, 607455,
     607562, 607669, 607777, 607884, 607991, 608098, 608205, 608312, 608419, 608526,
     608633, 608740, 608847, 608954, 609061, 609167, 609274, 609381, 609488, 609594,
     609701, 609808, 609914, 610021, 610128, 610234, 610341, 610447, 610554, 610660,
     610767, 610873, 610979, 611086, 611192, 611298, 611405, 611511, 611617, 611723,
     611829, 611936, 612042, 612148, 612254, 612360, 612466, 612572, 612678, 612784,
     612890, 612996, 613102, 613207, 613313, 613419, 613525, 613630, 613736, 613842,
     613947, 614053, 614159, 614264, 614370, 614475, 614581, 614686, 614792, 614897,
     615003, 615108, 615213, 615319, 615424, 615529, 615634, 615740, 615845, 615950,
     616055, 616160, 616265, 616370, 616476, 616581, 616686, 616790, 616895, 617000,
     617105, 617210, 617315, 617420, 617525, 617629, 617734, 617839, 617943, 618048,
     618153, 618257, 618362, 618466, 618571, 618676, 618780, 618884, 618989, 619093,
     619198, 619302, 619406, 619511, 619615, 619719, 619824, 619928, 620032, 620136,
     620240, 620344, 620448, 620552, 620656, 620760, 620864, 620968, 621072, 621176,
     621280, 621384, 621488, 621592, 621695, 621799, 621903, 622007, 622110, 622214,
     622318, 622421, 622525, 622628, 622732, 622835, 622939, 623042, 623146, 623249
  >>

\* std::pow(ply + 2.95, 0.462) in micro, for ply in 0 .. Len(PowTable) - 1
PowTable ==
  <<
     1648382, 1886374, 2093667, 2279433, 2449046, 2605971, 2752595, 2890642, 3021408, 3145893,
     3264891, 3379040, 3488866, 3594806, 3697229, 3796451, 3892741, 3986333, 4077435, 4166225,
     4252865, 4337497, 4420248, 4501233, 4580556, 4658310, 4734582, 4809449, 4882983, 4955250,
     5026309, 5096218, 5165027, 5232785, 5299536, 5365323, 5430183, 5494153, 5557268, 5619558,
     5681055, 5741786, 5801778, 5861057, 5919645, 5977565, 6034840, 6091488, 6147529, 6202982,
     6257863, 6312190, 6365977, 6419240, 6471994, 6524251, 6576026, 6627330, 6678176, 6728575,
     6778538, 6828076, 6877199, 6925916, 6974238, 7022173, 7069730, 7116917, 7163743, 7210215,
     7256341, 7302128, 7347583, 7392713, 7437524, 7482023, 7526216, 7570109, 7613707, 7657017,
     7700043, 7742791, 7785266, 7827473, 7869417, 7911102, 7952532, 7993713, 8034648, 8075342,
     8115798, 8156021, 8196014, 8235781, 8275326, 8314652, 8353762, 8392660, 8431350, 8469834,
     8508115, 8546197, 8584083, 8621774, 8659275, 8696587, 8733714, 8770658, 8807422, 8844008,
     8880419, 8916656, 8952723, 8988621, 9024354, 9059922, 9095328, 9130575, 9165664, 9200597,
     9235376, 9270003, 9304481, 9338810, 9372993, 9407032, 9440927, 9474682, 9508297, 9541774,
     9575115, 9608322, 9641395, 9674337, 9707148, 9739831, 9772387, 9804817, 9837122, 9869305,
     9901365, 9933305, 9965127, 9996830, 10028416, 10059887, 10091244, 10122488, 10153620, 10184641,
     10215553, 10246355, 10277051, 10307640, 10338124, 10368503, 10398779, 10428953, 10459026, 10488998,
     10518871, 10548645, 10578322, 10607902, 10637386, 10666776, 10696071, 10725274, 10754384, 10783402,
     10812330, 10841168, 10869917, 10898578, 10927151, 10955638, 10984039, 11012354, 11040585, 11068731,
     11096795, 11124777, 11152676, 11180495, 11208233, 11235892, 11263472, 11290973, 11318396, 11345742,
     11373012, 11400206, 11427324, 11454368, 11481337, 11508233, 11535056, 11561806, 11588485, 11615092,
     11641629, 11668095, 11694491, 11720819, 11747077, 11773268, 11799391, 11825446, 11851435, 11877358,
     11903215, 11929007, 11954734, 11980396, 12005995, 12031530, 12057003, 12082413, 12107761, 12133047,
     12158272, 12183436, 12208540, 12233584, 12258568, 12283493, 12308360, 12333168, 12357918, 12382610,
     12407245, 12431824, 12456346, 12480812, 12505222, 12529577, 12553876, 12578122, 12602312, 12626449,
     12650533, 12674563, 12698540, 12722464, 12746336, 12770157, 12793925, 12817642, 12841309, 12864924,
     12888490, 12912005, 12935470, 12958886, 12982253, 13005571, 13028840, 13052061, 13075234, 13098359,
     13121437, 13144468, 13167452, 13190389, 13213280, 13236124, 13258923, 13281677, 13304385, 13327048,
     13349666, 13372239, 13394769, 13417254, 13439696, 13462094, 13484448, 13506760, 13529029, 13551255,
     13573439, 13595580, 13617680, 13639738, 13661755, 13683730, 13705664, 13727558, 13749411, 13771223,
     13792996, 13814728, 13836421, 13858074, 13879688, 13901263, 13922798, 13944295, 13965754, 13987174,
     14008556, 14029901, 14051207, 14072476, 14093707, 14114902, 14136059, 14157179, 14178263, 14199311,
     14220322, 14241297, 14262236, 14283140, 14304008, 14324840, 14345637, 14366399, 14387127, 14407819,
     14428477
  >>

Log10Milli(t) == Log10Table[t]

PowPly(ply) == PowTable[ply + 1]


-----------------------------------------------------------------------------
\* The tunable globals, under the source's names

mtg_1 == mtgTune[1]

mtg_2 == mtgTune[2]

mtg_3 == mtgTune[3]

mtg_4 == mtgTune[4]

mtg_5 == mtgTune[5]

mtg_6 == mtgTune[6]

mtg_7 == mtgTune[7]

mtg_8 == mtgTune[8]

mtg_9 == mtgTune[9]

mtg_10 == mtgTune[10]

mtg_11 == mtgTune[11]

mtg_12 == mtgTune[12]

mtg_13 == mtgTune[13]

mtg_14 == mtgTune[14]

mtg_15 == mtgTune[15]

-----------------------------------------------------------------------------
\* The locals of init, in the order the code computes them

\* int moveNumber = (ply % 2 == 0) ? (ply / 2) : std::div(ply, 2).quot + 1;
MoveNumber(ply) == IF ply % 2 = 0 THEN ply \div 2 ELSE ply \div 2 + 1

\* int estimatedMoveHorizon = 50; followed by the if / else-if chain
EstimatedMoveHorizon(moveNumber) ==
    IF 0 < moveNumber /\ moveNumber <= 10 THEN mtg_1
    ELSE IF 10 < moveNumber /\ moveNumber <= 20 THEN mtg_2
    ELSE IF 20 < moveNumber /\ moveNumber <= 30 THEN mtg_3
    ELSE IF 30 < moveNumber /\ moveNumber <= 40 THEN mtg_4
    ELSE IF 40 < moveNumber /\ moveNumber <= 50 THEN mtg_5
    ELSE IF 50 < moveNumber /\ moveNumber <= 60 THEN mtg_6
    ELSE IF 60 < moveNumber /\ moveNumber <= 70 THEN mtg_7
    ELSE IF 70 < moveNumber /\ moveNumber <= 80 THEN mtg_8
    ELSE IF 80 < moveNumber /\ moveNumber <= 90 THEN mtg_9
    ELSE IF 90 < moveNumber /\ moveNumber <= 100 THEN mtg_10
    ELSE IF 100 < moveNumber /\ moveNumber <= 110 THEN mtg_11
    ELSE IF 110 < moveNumber /\ moveNumber <= 120 THEN mtg_12
    ELSE IF 120 < moveNumber /\ moveNumber <= 130 THEN mtg_13
    ELSE IF 130 < moveNumber /\ moveNumber <= 140 THEN mtg_14
    ELSE IF 140 < moveNumber /\ moveNumber <= 150 THEN mtg_15
    ELSE DefaultMoveHorizon

\* int mtg = limits.movestogo ? std::min(limits.movestogo, 50) : estimatedMoveHorizon;
MovesToGoHorizon(movestogo, estimatedMoveHorizon) ==
    IF movestogo # 0 THEN Min(movestogo, MaxMoveHorizon) ELSE estimatedMoveHorizon

\* Mutant of LowTimeCorrection: time * 0.05 rounded up instead of truncated
LowTimeCorrectionRoundUp(mtg, time) ==
    IF time < LowTimeLimit /\ 100 * mtg > 5 * time
    THEN (5 * time + 99) \div 100
    ELSE mtg

\* if (limits.time[us] < 1000 && (double(mtg) / limits.time[us] > 0.05))
\*     mtg = limits.time[us] * 0.05;
\* mtg / time > 5/100 is 100 * mtg > 5 * time, and int(time * 0.05) is
\* floor(5 * time / 100): both agree with the double arithmetic for every
\* 0 < time < 1000 and 0 <= mtg <= 100.
LowTimeCorrection(mtg, time) ==
    IF time < LowTimeLimit /\ 100 * mtg > 5 * time
    THEN (5 * time) \div 100
    ELSE mtg

\* TimePoint timeLeft = std::max(TimePoint(1), limits.time[us]
\*     + limits.inc[us] * (mtg - 1) - moveOverhead * (2 + mtg));
TimeLeft(time, inc, mtg, moveOverhead) ==
    Max(1, time + inc * (mtg - 1) - moveOverhead * (2 + mtg))

\* double optExtra = limits.inc[us] < 500 ? 1.0 : 1.13;     (in hundredths)
OptExtra(inc) == IF inc < 500 THEN 100 ELSE 113

\* std::min(0.00308 + 0.000319 * std::log10(limits.time[us] / 1000.0), 0.00506)
\* (in nano)
OptConstant(time) ==
    Min(3080000 + SMulDiv(319, Log10Milli(time), 1000), 5060000)

\* std::max(3.39 + 3.01 * std::log10(limits.time[us] / 1000.0), 2.93)  (in micro)
MaxConstant(time) ==
    Max(3390000 + SMulDiv(301, Log10Milli(time), 100), 2930000)

\* optScale = std::min(0.0122 + std::pow(ply + 2.95, 0.462) * optConstant,
\*                     0.213 * limits.time[us] / double(timeLeft)) * optExtra;
\* (in micro)
OptScaleSuddenDeath(time, inc, ply, timeLeft) ==
    MulDiv(Min(12200 + MulDiv(PowPly(ply), OptConstant(time), Nano),
               MulDiv(213000, time, timeLeft)),
           OptExtra(inc), 100)

\* maxScale = std::min(6.64, maxConstant + ply / 12.0);     (in micro)
MaxScaleSuddenDeath(time, ply) ==
    Min(6640000, MaxConstant(time) + (ply * Micro) \div 12)

\* x / mtg for a double x > 0 in micro: +infinity when mtg is 0
DivideByMtg(x, mtg) == IF mtg = 0 THEN Infinity ELSE x \div mtg

\* optScale = std::min((0.88 + ply / 116.4) / mtg,
\*                     0.88 * limits.time[us] / double(timeLeft));   (in micro)
OptScaleMovesToGo(time, ply, mtg, timeLeft) ==
    Min(DivideByMtg(880000 + MulDiv(ply, 10^7, 1164), mtg),
        MulDiv(880000, time, timeLeft))

\* maxScale = std::min(6.3, 1.5 + 0.11 * mtg);     (in micro)
MaxScaleMovesToGo(mtg) == Min(6300000, 1500000 + 110000 * mtg)

\* optimumTime = TimePoint(optScale * timeLeft);
OptimumTime(optScale, timeLeft) == MulDiv(optScale, timeLeft, Micro)

\* Mutant of MaximumTime: moveOverhead is subtracted twice
MaximumTimeOverheadTwice(time, moveOverhead, maxScale, optTime) ==
    TruncMilli(Min(825 * time - 2000 * moveOverhead,
                   MulDiv(maxScale, optTime, 1000))) - SafetyMargin

\* Mutant of MaximumTime: the std::min with 0.825 * time - moveOverhead is lost
MaximumTimeUnclamped(time, moveOverhead, maxScale, optTime) ==
    TruncMilli(MulDiv(maxScale, optTime, 1000)) - SafetyMargin

\* maximumTime = TimePoint(std::min(0.825 * limits.time[us] - moveOverhead,
\*                                  maxScale * optimumTime)) - 10;
\* Both arguments of std::min are in milli; 0.825 * time - moveOverhead is
\* exactly (825 * time - 1000 * moveOverhead) / 1000.
MaximumTime(time, moveOverhead, maxScale, optTime) ==
    TruncMilli(Min(825 * time - 1000 * moveOverhead,
                   MulDiv(maxScale, optTime, 1000))) - SafetyMargin

\* Mutant of PonderAdjust: optimumTime / 2 is added
PonderAdjustHalf(optTime) == optTime + optTime \div 2

\* if (options["Ponder"]) optimumTime += optimumTime / 4;
PonderAdjust(optTime) == optTime + optTime \div 4

\* The divisors of the call that are not literals: limits.time[us] at line 187
\* (evaluated only when limits.time[us] < 1000), double(timeLeft) at lines 210
\* and 218, mtg at line 218.
Divisors(time, movestogo, mtg, timeLeft) ==
    (IF time < LowTimeLimit THEN {<<"time", time>>} ELSE {})
    \cup {<<"timeLeft", timeLeft>>}
    \cup (IF movestogo = 0 THEN {} ELSE {<<"mtg", mtg>>})

\* Lines 117-228 of init on the (converted) limits l: the locals and the two
\* results.
Budget(l, us, ply, moveOverhead, ponder) ==
    LET time     == l.time[us]
        inc      == l.inc[us]
        mtgPre   == MovesToGoHorizon(l.movestogo,
                                     EstimatedMoveHorizon(MoveNumber(ply)))
        mtg      == LowTimeCorrection(mtgPre, time)
        timeLeft == TimeLeft(time, inc, mtg, moveOverhead)
        optScale == IF l.movestogo = 0
                    THEN OptScaleSuddenDeath(time, inc, ply, timeLeft)
                    ELSE OptScaleMovesToGo(time, ply, mtg, timeLeft)
        maxScale == IF l.movestogo = 0
                    THEN MaxScaleSuddenDeath(time, ply)
                    ELSE MaxScaleMovesToGo(mtg)
        optTime  == OptimumTime(optScale, timeLeft)
    IN [mtgPre   |-> mtgPre,
        mtg      |-> mtg,
        timeLeft |-> timeLeft,
        optScale |-> optScale,
        maxScale |-> maxScale,
        divisors |-> Divisors(time, l.movestogo, mtg, timeLeft),
        optimum  |-> IF ponder THEN PonderAdjust(optTime) ELSE optTime,
        maximum  |-> MaximumTime(time, moveOverhead, maxScale, optTime)]

-----------------------------------------------------------------------------
\* The operations of TimeManagement

NoArgs ==
    [limits |-> << >>, us |-> "WHITE", ply |-> 0, moveOverhead |-> 0,
     nodestime |-> 0, ponder |-> FALSE, nodes |-> 0, now |-> 0]

NoInternals == << >>

\* Mutant of SeedNodes: the "only once" test is lost
SeedNodesAlways(avail, npmsec, time) == npmsec * time

\* if (!availableNodes) availableNodes = npmsec * limits.time[us];
SeedNodes(avail, npmsec, time) == IF avail = 0 THEN npmsec * time ELSE avail

\* limits.time[us] = TimePoint(availableNodes); limits.inc[us] *= npmsec;
\* limits.npmsec = npmsec;
ConvertLimits(l, us, npmsec, avail) ==
    [l EXCEPT !.time[us] = avail, !.inc[us] = @ * npmsec, !.npmsec = npmsec]

\* Mutant of InitStartTime: the assignment is made after the zero-time return
InitStartTimeAfterReturn(l, us, prior) ==
    IF l.time[us] = 0 THEN prior ELSE l.startTime

\* startTime = limits.startTime;  (line 89, before the zero-time return)
\* prior is startTime before the call.
InitStartTime(l, us, prior) == l.startTime

\* Mutant of UseNodesTimeAfterInit: the flag follows the rate of each call
UseNodesTimeFromRate(npmsec, prior) == npmsec # 0

\* if (npmsec) { useNodesTime = true; ... }
\* prior is useNodesTime before the call.
UseNodesTimeAfterInit(npmsec, prior) == IF npmsec # 0 THEN TRUE ELSE prior

\* return useNodesTime ? TimePoint(nodes) : now() - startTime;
ElapsedValue(nodesMode, nodes, now, start) ==
    IF nodesMode THEN nodes ELSE now - start

\* void TimeManagement::init(Search::LimitsType& limits, Color us, int ply,
\*                           const OptionsMap& options)
\* l is the caller's limits object as passed; limits' is that object when init
\* returns.
TMInit(l, us, ply, moveOverhead, npmsec, ponder) ==
    /\ ~aborted
    /\ startTime' = InitStartTime(l, us, startTime)
    /\ lastOp' = "init"
    /\ args' = [NoArgs EXCEPT !.limits = l, !.us = us, !.ply = ply,
                              !.moveOverhead = moveOverhead,
                              !.nodestime = npmsec, !.ponder = ponder]
    /\ IF l.time[us] = 0
       THEN /\ limits' = l
            /\ internals' = NoInternals
            /\ UNCHANGED <<optimumTime, maximumTime, availableNodes, useNodesTime>>
       ELSE LET avail == IF npmsec # 0
                         THEN SeedNodes(availableNodes, npmsec, l.time[us])
                         ELSE availableNodes
                l1    == IF npmsec # 0
                         THEN ConvertLimits(l, us, npmsec, avail)
                         ELSE l
                b     == Budget(l1, us, ply, moveOverhead, ponder)
            IN /\ useNodesTime' = UseNodesTimeAfterInit(npmsec, useNodesTime)
               /\ availableNodes' = avail
               /\ limits' = l1
               /\ internals' = [b EXCEPT !.optimum = 0, !.maximum = 0]
               /\ optimumTime' = b.optimum
               /\ maximumTime' = b.maximum
    /\ ret' = 0
    /\ UNCHANGED <<mtgTune, assertsEnabled, aborted>>

\* void TimeManagement::clear() { availableNodes = 0; }
TMClear ==
    /\ ~aborted
    /\ availableNodes' = 0
    /\ lastOp' = "clear"
    /\ args' = NoArgs
    /\ internals' = NoInternals
    /\ ret' = 0
    /\ UNCHANGED <<startTime, optimumTime, maximumTime, useNodesTime, limits,
                   mtgTune, assertsEnabled, aborted>>

\* void TimeManagement::advance_nodes_time(std::int64_t nodes) {
\*     assert(useNodesTime);
\*     availableNodes += nodes; }
\* With NDEBUG the assert is compiled out; without it a failed assert ends
\* the process before availableNodes is written.
TMAdvanceNodesTime(nodes) ==
    /\ ~aborted
    /\ lastOp' = "advance_nodes_time"
    /\ args' = [NoArgs EXCEPT !.nodes = nodes]
    /\ internals' = NoInternals
    /\ IF assertsEnabled /\ ~useNodesTime
       THEN /\ aborted' = TRUE
            /\ UNCHANGED availableNodes
       ELSE /\ availableNodes' = availableNodes + nodes
            /\ UNCHANGED aborted
    /\ ret' = 0
    /\ UNCHANGED <<startTime, optimumTime, maximumTime, useNodesTime, limits,
                   mtgTune, assertsEnabled>>

\* TimePoint TimeManagement::elapsed(size_t nodes) const {
\*     return useNodesTime ? TimePoint(nodes) : now() - startTime; }
\* now is the value now() returns during the call.
TMElapsed(nodes, now) ==
    /\ ~aborted
    /\ lastOp' = "elapsed"
    /\ args' = [NoArgs EXCEPT !.nodes = nodes, !.now = now]
    /\ internals' = NoInternals
    /\ ret' = ElapsedValue(useNodesTime, nodes, now, startTime)
    /\ UNCHANGED <<startTime, optimumTime, maximumTime, availableNodes,
                   useNodesTime, limits, mtgTune, assertsEnabled, aborted>>

-----------------------------------------------------------------------------
\* The callers' inputs

\* A Search::LimitsType whose side-to-move entries are time and inc; the other
\* side's entries are fixed.
MakeLimits(us, time, inc, movestogo, start) ==
    [time      |-> [c \in Colors |-> IF c = us THEN time ELSE 700],
     inc       |-> [c \in Colors |-> IF c = us THEN inc ELSE 7],
     npmsec    |-> 0,
     movestogo |-> movestogo,
     startTime |-> start]

DefaultTune == [k \in 1..NumBuckets |-> DefaultMtg]

\* Values an uninitialised TimePoint member may hold
Garbage == {0, 77}

\* A TimeManagement as constructed: availableNodes = 0, useNodesTime = false,
\* the three TimePoint members uninitialised.
Constructed ==
    /\ startTime \in Garbage
    /\ optimumTime \in Garbage
    /\ maximumTime \in Garbage
    /\ availableNodes = 0
    /\ useNodesTime = FALSE
    /\ aborted = FALSE
    /\ lastOp = "none"
    /\ args = NoArgs
    /\ internals = NoInternals
    /\ ret = 0

-----------------------------------------------------------------------------
\* Spec: any sequence of calls on one TimeManagement, with the default tuning

\* The cap on availableNodes that keeps the node budget within the tabulated
\* range of std::log10
MaxNodes == 3000

SpecTimes == {0, 500, 1000}

SpecIncs == {100}

SpecMovesToGo == {0, 20}

SpecPlies == {21}

SpecOverheads == {10}

SpecNodestimes == {0, 2}

SpecStartTimes == {50}

AdvanceNodes == {-500, 500}

ElapsedNodes == {3}

NowValues == {100, 200}

NoScript == << >>

Init ==
    /\ Constructed
    /\ limits = MakeLimits("WHITE", 0, 0, 0, 0)
    /\ mtgTune = DefaultTune
    /\ assertsEnabled \in BOOLEAN
    /\ script = NoScript

InitCall ==
    \E us \in Colors, time \in SpecTimes, inc \in SpecIncs,
       movestogo \in SpecMovesToGo, start \in SpecStartTimes,
       ply \in SpecPlies, moveOverhead \in SpecOverheads,
       npmsec \in SpecNodestimes, ponder \in {FALSE} :
        /\ TMInit(MakeLimits(us, time, inc, movestogo, start), us, ply,
                  moveOverhead, npmsec, ponder)
        /\ UNCHANGED script

ClearCall == TMClear /\ UNCHANGED script

AdvanceCall ==
    \E nodes \in AdvanceNodes :
        /\ availableNodes + nodes \in 0..MaxNodes
        /\ TMAdvanceNodesTime(nodes)
        /\ UNCHANGED script

ElapsedCall ==
    \E nodes \in ElapsedNodes, now \in NowValues :
        /\ TMElapsed(nodes, now)
        /\ UNCHANGED script

Next == InitCall \/ ClearCall \/ AdvanceCall \/ ElapsedCall

Spec == Init /\ [][Next]_vars

-----------------------------------------------------------------------------
\* SpecFormula: one request, drawn from the wider input sets below, is made of
\* a fresh TimeManagement with Ponder off; then Ponder is switched on and the
\* same request is made again.

FormulaTimes == {0, 1, 10, 19, 20, 500, 999, 1000, 2000}

FormulaIncs == {0, 500}

FormulaMovesToGo == {0, 1, 20, 60}

FormulaPlies == {0, 1, 21, 299, 301}

FormulaOverheads == {0, 10, 1000}

FormulaNodestimes == {0, 2}

TunedBuckets == {1, NumBuckets}

TuneValues == {TuneRangeMin, TuneRangeMax}

\* The tunings reachable by setting at most one bucket within its TUNE range
TuneTables ==
    {DefaultTune}
    \cup {[DefaultTune EXCEPT ![k] = v] : k \in TunedBuckets, v \in TuneValues}

InitFormula ==
    /\ Constructed
    /\ startTime = 77 /\ optimumTime = 77 /\ maximumTime = 77
    /\ limits = MakeLimits("WHITE", 0, 0, 0, 0)
    /\ mtgTune \in TuneTables
    /\ assertsEnabled = TRUE
    /\ script \in [time : FormulaTimes, inc : FormulaIncs,
                   movestogo : FormulaMovesToGo, ply : FormulaPlies,
                   moveOverhead : FormulaOverheads,
                   nodestime : FormulaNodestimes,
                   ponder : {FALSE}, pending : {TRUE},
                   offOptimum : {0}, offMaximum : {0}]

\* init called with the scripted request on a fresh copy of the limits
ScriptedInit ==
    /\ script.pending
    /\ TMInit(MakeLimits("WHITE", script.time, script.inc, script.movestogo, 50),
              "WHITE", script.ply, script.moveOverhead, script.nodestime,
              script.ponder)
    /\ script' = [script EXCEPT !.pending = FALSE]

\* options["Ponder"] is switched on after the first call, whose results are
\* kept for comparison, and the request is made again
SetPonder ==
    /\ ~script.pending
    /\ ~script.ponder
    /\ script' = [script EXCEPT !.ponder = TRUE, !.pending = TRUE,
                                !.offOptimum = optimumTime,
                                !.offMaximum = maximumTime]
    /\ UNCHANGED <<startTime, optimumTime, maximumTime, availableNodes,
                   useNodesTime, limits, mtgTune, assertsEnabled, aborted,
                   lastOp, args, internals, ret>>

NextFormula == ScriptedInit \/ SetPonder

SpecFormula == InitFormula /\ [][NextFormula]_vars

-----------------------------------------------------------------------------
\* Properties

\* The last step was an init call that found limits.time[us] > 0
InitRan == lastOp = "init" /\ args.limits.time[args.us] > 0

\* limits.time[us] as the formulas of the last init call used it
UsedTime == limits.time[args.us]

\* SpecFormula: the request has been made a second time, with Ponder on
SecondCallDone ==
    /\ InitRan
    /\ script.ponder
    /\ ~script.pending

\* C1: after init with limits.time[us] > 0, maximum() is at most
\* 0.825 * remainingTime - moveOverhead, remainingTime being limits.time[us]
\* as the formulas use it (the node-converted value when nodestime is nonzero).
C1_MaximumBounded ==
    InitRan =>
        1000 * maximumTime <= 825 * UsedTime - 1000 * args.moveOverhead

\* C1's case: in nodes-as-time mode with a move overhead, the clamp
\* 0.825 * time - moveOverhead is the smaller argument of std::min.
C1_Witness ==
    /\ InitRan
    /\ args.nodestime # 0
    /\ args.moveOverhead > 0
    /\ UsedTime = args.nodestime * args.limits.time[args.us]
    /\ maximumTime > 0
    /\ maximumTime + SafetyMargin
         = TruncMilli(825 * UsedTime - 1000 * args.moveOverhead)

\* C2 as stated: after init with limits.time[us] > 0, optimum() >= 0 and
\* maximum() >= 0.
C2_Original ==
    InitRan => (optimumTime >= 0 /\ maximumTime >= 0)

\* C2 amended: after init with limits.time[us] > 0, optimum() >= 0, and
\* maximum() >= min(0, trunc(0.825 * time - moveOverhead)) - 10, which is
\* -10 when moveOverhead <= 0.825 * time.
C2_Amended ==
    InitRan =>
        /\ optimumTime >= 0
        /\ maximumTime >=
             Min(0, TruncMilli(825 * UsedTime - 1000 * args.moveOverhead))
               - SafetyMargin

\* C2's case: moveOverhead exceeds 0.825 * time and maximum() is below -10.
C2_Witness ==
    /\ InitRan
    /\ 1000 * args.moveOverhead > 825 * UsedTime
    /\ optimumTime >= 0
    /\ maximumTime < 0 - SafetyMargin

C4_Original ==
    [][/\ (useNodesTime /\ lastOp' # "clear") => useNodesTime'
       /\ (useNodesTime /\ lastOp' = "elapsed") => ret' = args'.nodes
       /\ lastOp' = "clear" => ~useNodesTime']_vars

\* C4 amended: once useNodesTime is true it stays true through every call,
\* clear() included, and every elapsed(nodes) from then on returns nodes.
C4_Amended ==
    [][/\ useNodesTime => useNodesTime'
       /\ (useNodesTime /\ lastOp' = "elapsed") => ret' = args'.nodes]_vars

\* C4's case: elapsed returned the node count, not now() - startTime, after
\* the latest init ran with nodestime = 0.
C4_Witness ==
    /\ lastOp = "elapsed"
    /\ useNodesTime
    /\ limits.npmsec = 0
    /\ limits.time["WHITE"] > 0
    /\ ret = args.nodes
    /\ ret # args.now - startTime

\* C5: init with limits.time[us] = 0 writes startTime = limits.startTime and
\* nothing else: optimumTime, maximumTime, availableNodes, useNodesTime and
\* the caller's limits keep their values, whatever nodestime is.
C5_ZeroTimeFrame ==
    [][(lastOp' = "init" /\ args'.limits.time[args'.us] = 0) =>
          /\ startTime' = args'.limits.startTime
          /\ limits' = args'.limits
          /\ UNCHANGED <<optimumTime, maximumTime, availableNodes,
                         useNodesTime>>]_vars

\* C5's case: a zero-time init with nodestime set has run on a fresh object:
\* startTime is written, the mode is not entered, the budgets are untouched.
C5_Witness ==
    /\ lastOp = "init"
    /\ args.limits.time[args.us] = 0
    /\ args.nodestime # 0
    /\ startTime = args.limits.startTime
    /\ ~useNodesTime
    /\ availableNodes = 0
    /\ limits.npmsec = 0
    /\ optimumTime = 77
    /\ maximumTime = 77

\* C6 as stated: with Ponder on, optimum() is strictly greater than and
\* exactly 1.25 times the optimum() of the same request with Ponder off, and
\* maximum() is the same.
C6_Original ==
    SecondCallDone =>
        /\ optimumTime > script.offOptimum
        /\ 4 * optimumTime = 5 * script.offOptimum
        /\ maximumTime = script.offMaximum

\* C6 amended: with Ponder on, optimum() is base + floor(base / 4), base being
\* the optimum() of the same request with Ponder off (so it is strictly
\* greater only when base >= 4 and 1.25 * base only when 4 divides base);
\* maximum() is the same.
C6_Amended ==
    SecondCallDone =>
        /\ optimumTime = script.offOptimum + script.offOptimum \div 4
        /\ maximumTime = script.offMaximum

\* C6's case: Ponder raised an optimum() that 4 does not divide.
C6_Witness ==
    /\ SecondCallDone
    /\ script.offOptimum % 4 # 0
    /\ optimumTime > script.offOptimum
    /\ 4 * optimumTime # 5 * script.offOptimum

\* C7: advance_nodes_time called while useNodesTime is false leaves
\* availableNodes unchanged and ends in an error the caller can observe.
C7_Claim ==
    [][(lastOp' = "advance_nodes_time" /\ ~useNodesTime) =>
          (availableNodes' = availableNodes /\ aborted')]_vars

\* C8: the horizon mtg of init never exceeds 50, before or after the low-time
\* correction, for an explicit movestogo and for every bucket value in the
\* tuning range.
C8_Claim ==
    InitRan =>
        (internals.mtgPre <= MaxMoveHorizon /\ internals.mtg <= MaxMoveHorizon)

\* C9: in an init call with limits.time[us] > 0, timeLeft >= 1 and no
\* division has a zero divisor.
C9_Claim ==
    InitRan =>
        /\ internals.timeLeft >= 1
        /\ \A d \in internals.divisors : d[2] # 0

\* C10: with t the time the formulas use and mtg the horizon before the
\* correction, the corrected mtg is floor(t * 0.05) if t < 1000 and
\* mtg / t > 0.05, and mtg otherwise; afterwards mtg / t <= 0.05 whenever
\* t < 1000.
C10_LowTimeCorrection ==
    InitRan =>
        /\ internals.mtg =
             IF UsedTime < 1000 /\ 20 * internals.mtgPre > UsedTime
             THEN UsedTime \div 20
             ELSE internals.mtgPre
        /\ UsedTime < 1000 => 20 * internals.mtg <= UsedTime

\* C10's case: t = 500 and mtg = 50 give 25.
C10_Witness ==
    /\ InitRan
    /\ UsedTime = 500
    /\ internals.mtgPre = 50
    /\ internals.mtg = 25
====
